---------------------------- MODULE Spec2Model ----------------------------
(***************************************************************************)
(* Transport layer of the quantum-network simulator                        *)
(* (quantumnet/components/layers/transport_layer.py).                      *)
(*                                                                         *)
(* State: the host memories, the per-edge EPR pools, the list              *)
(* transmitted_qubits (the ledger), and a record of the most recent call   *)
(* (its arguments, what it returned and the state it started from), and    *)
(* the teleportation_protocol calls in flight when calls are interleaved.   *)
(* One action per public method: request_transmission and                  *)
(* teleportation_protocol.  Fidelities are tenths (0..10), probabilities   *)
(* are exact fractions num/den.                                            *)
(***************************************************************************)
EXTENDS Integers, Sequences, FiniteSets

VARIABLES memory, epr, ledger, last, calls

vars == <<memory, epr, ledger, last, calls>>

(***************************************************************************)
(* Bounds of the model.                                                    *)
(***************************************************************************)
MaxQubits == 2     \* qubits a host memory holds initially, at most
MaxPairs == 2      \* EPR pairs an edge holds initially, at most
MaxCount == 2      \* largest num_qubits of a request_transmission call
MaxLedger == 2     \* calls are made while the ledger can take their records

(***************************************************************************)
(* Topology: three nodes, the direct edge 1-3 and the two-hop path 1-2-3.  *)
(* Calls go from host 1 to host 3; a route is a simple path of at least     *)
(* two nodes, so source and destination differ.                            *)
(***************************************************************************)
Nodes == {1, 2, 3}
Edges == {{1, 2}, {2, 3}, {1, 3}}
EndpointPairs == {<<1, 3>>}
Hosts == {p[1] : p \in EndpointPairs} \cup {p[2] : p \in EndpointPairs}

Edge(n1, n2) == {n1, n2}

\* `None`, the answer of short_route_valid when there is no valid route.
NoRoute == <<>>

\* The simple paths of the topology with at least two nodes.
Paths ==
    {p \in UNION {[1..k -> Nodes] : k \in 2..Cardinality(Nodes)} :
        /\ \A i, j \in 1..Len(p) : i # j => p[i] # p[j]
        /\ \A i \in 1..(Len(p) - 1) : Edge(p[i], p[i + 1]) \in Edges}

\* The routes the network layer may return for a request from a to b.
Routes(a, b) == {p \in Paths : p[1] = a /\ p[Len(p)] = b}

\* Every answer short_route_valid(a, b) may give: a route or None.
short_route_valid(a, b) == Routes(a, b) \cup {NoRoute}

\* The hops of a route: range(len(route) - 1).
Hops(route) == 1..(Len(route) - 1)

(***************************************************************************)
(* Qubits and EPR pairs.  A qubit is an identifier; host h starts with     *)
(* qubits 10h+1, 10h+2, ...  An EPR pair of an edge is its index in the    *)
(* initial pool.  Fidelities are tenths.                                   *)
(***************************************************************************)
FidelityCycle == <<10, 5, 0>>

QubitId(h, i) == 10 * h + i

\* Qubit.get_current_fidelity(), in tenths.
QubitFidelity(q) == FidelityCycle[(q % Len(FidelityCycle)) + 1]

EprCycle == <<5, 10, 8>>

\* Epr.get_current_fidelity(), in tenths.
EprFidelity(e) == EprCycle[((e - 1) % Len(EprCycle)) + 1]

\* The uniform(0, 1) draws of the model, in tenths.
Draws == {0, 5, 10}

\* Network.get_eprs_from_edge: the pairs of an edge, read only.
get_eprs_from_edge(pools, n1, n2) == pools[Edge(n1, n2)]

RECURSIVE SumSeq(_)
SumSeq(s) == IF s = <<>> THEN 0 ELSE Head(s) + SumSeq(Tail(s))

InitialMemory(h, k) == [i \in 1..k |-> QubitId(h, i)]
InitialPool(k) == [i \in 1..k |-> i]


(***************************************************************************)
(* teleportation_protocol, step by step.                                   *)
(***************************************************************************)

\* Mutant of line 119: only the source memory is tested.
MemoriesSufficientAliceOnly(mem, a, b) == ~(Len(mem[a]) < 1)

\* Line 119: both memories hold at least one qubit.
MemoriesSufficient(mem, a, b) == ~(Len(mem[a]) < 1 \/ Len(mem[b]) < 1)

\* Mutant of line 124: bob.memory.pop(0), the front qubit is removed.
AfterPopBackAsFront(s) == Tail(s)

\* list.pop(0) and list.pop(): the list that is left.
AfterPopFront(s) == Tail(s)
AfterPopBack(s) == SubSeq(s, 1, Len(s) - 1)

\* Lines 131-134: the fidelities of every pair of every hop, one flat list.
RECURSIVE CollectFrom(_, _, _)
CollectFrom(pools, route, i) ==
    IF i > Len(route) - 1 THEN <<>>
    ELSE LET epr_pairs == get_eprs_from_edge(pools, route[i], route[i + 1])
         IN  [k \in 1..Len(epr_pairs) |-> EprFidelity(epr_pairs[k])]
                 \o CollectFrom(pools, route, i + 1)

CollectFidelities(pools, route) == CollectFrom(pools, route, 1)

\* Mutant of line 143: the parentheses around (1 - f_route) are lost.
SuccessProbPrecedence(f_alice, f_bob, fsum, n) ==
    [num |-> f_alice * f_bob * fsum
               + (10 - f_alice) * (10 - f_bob) * 10 * n - fsum,
     den |-> 1000 * n]

\* Lines 140-143: success_prob as the fraction num/den, where
\* f_route = fsum / (10 * n) and f_alice, f_bob are tenths.
SuccessProb(f_alice, f_bob, fsum, n) ==
    [num |-> f_alice * f_bob * fsum
               + ((10 - f_alice) * (10 - f_bob) * (10 * n - fsum)),
     den |-> 1000 * n]

\* Mutant of line 157: uniform(0, 1) < success_prob.
DrawSucceedsStrict(draw, prob) == draw * prob.den < 10 * prob.num

\* Line 157: uniform(0, 1) <= success_prob, the draw in tenths.
DrawSucceeds(draw, prob) == draw * prob.den <= 10 * prob.num

\* Mutant of lines 160-166: the source qubit is appended to both memories
\* on success.
MemoryUpdateKeepsSource(mem, a, b, qubit_alice, qubit_bob, success) ==
    LET m1 == [mem EXCEPT ![a] = Append(@, qubit_alice)]
    IN  IF success
        THEN [m1 EXCEPT ![b] = Append(@, qubit_alice)]
        ELSE [m1 EXCEPT ![b] = Append(@, qubit_bob)]

\* Lines 157-167: the memories after the outcome.
MemoryUpdate(mem, a, b, qubit_alice, qubit_bob, success) ==
    IF success
    THEN [mem EXCEPT ![b] = Append(@, qubit_alice)]
    ELSE LET m1 == [mem EXCEPT ![a] = Append(@, qubit_alice)]
         IN  [m1 EXCEPT ![b] = Append(@, qubit_bob)]

\* Network.remove_epr: removes one pair of the edge; fails on an empty pool.
remove_epr(pools, n1, n2) ==
    IF Len(pools[Edge(n1, n2)]) = 0
    THEN [pools |-> pools, fault |-> TRUE]
    ELSE [pools |-> [pools EXCEPT ![Edge(n1, n2)] = SubSeq(@, 1, Len(@) - 1)],
          fault |-> FALSE]

\* Lines 170-171: remove_epr for every hop, in route order; a failing
\* remove_epr ends the loop (and the call) where it is.
RECURSIVE ReleaseFrom(_, _, _)
ReleaseFrom(pools, route, i) ==
    IF i > Len(route) - 1 THEN [pools |-> pools, fault |-> FALSE]
    ELSE LET r == remove_epr(pools, route[i], route[i + 1])
         IN  IF r.fault THEN r ELSE ReleaseFrom(r.pools, route, i + 1)

\* Mutant of line 170: range(len(route) - 2), the last hop is not released.
ReleaseEprsShort(pools, route) ==
    ReleaseFrom(pools, SubSeq(route, 1, Len(route) - 1), 1)

ReleaseEprs(pools, route) == ReleaseFrom(pools, route, 1)

\* What a call leaves behind: the state, whether it popped the two qubits,
\* whether it ended in an exception, and the value it returned otherwise.
Outcome(mem, pools, led, popped, fault, ret) ==
    [memory |-> mem, epr |-> pools, ledger |-> led,
     popped |-> popped, fault |-> fault, ret |-> ret]

\* Lines 145-155, 158/163: the record appended to transmitted_qubits.
TeleportInfo(a, b, route, f_alice, f_bob, fsum, n, prob, qa, qb, success) ==
    [alice_id |-> a, bob_id |-> b, route |-> route,
     fidelity_alice |-> f_alice, fidelity_bob |-> f_bob,
     fidelity_route |-> [num |-> fsum, den |-> 10 * n],
     success_prob |-> prob, qubit_alice |-> qa, qubit_bob |-> qb,
     success |-> success]

\* Lines 136-174: from the fidelity list to the return.
AfterAcquisition(mem, pools, led, a, b, route, draw, qubit_alice, qubit_bob) ==
    LET f_alice == QubitFidelity(qubit_alice)
        f_bob == QubitFidelity(qubit_bob)
        fidelities == CollectFidelities(pools, route)
    IN  IF fidelities = <<>>
        THEN Outcome(mem, pools, led, TRUE, FALSE, FALSE)
        ELSE LET fsum == SumSeq(fidelities)
                 n == Len(fidelities)
                 prob == SuccessProb(f_alice, f_bob, fsum, n)
                 success == DrawSucceeds(draw, prob)
                 mem2 == MemoryUpdate(mem, a, b, qubit_alice, qubit_bob, success)
                 rel == ReleaseEprs(pools, route)
                 info == TeleportInfo(a, b, route, f_alice, f_bob, fsum, n,
                                      prob, qubit_alice, qubit_bob, success)
             IN  IF rel.fault
                 THEN Outcome(mem2, rel.pools, led, TRUE, TRUE, FALSE)
                 ELSE Outcome(mem2, rel.pools, Append(led, info),
                              TRUE, FALSE, success)

\* Lines 110-174: the whole call, for the route the network layer answered
\* and the value uniform(0, 1) drew.
TeleportOutcome(mem, pools, led, a, b, route, draw) ==
    IF route = NoRoute
    THEN Outcome(mem, pools, led, FALSE, FALSE, FALSE)
    ELSE IF ~MemoriesSufficient(mem, a, b)
    THEN Outcome(mem, pools, led, FALSE, FALSE, FALSE)
    ELSE IF Len(mem[a]) = 0
    THEN \* alice.memory.pop(0) on an empty list raises IndexError
         Outcome(mem, pools, led, FALSE, TRUE, FALSE)
    ELSE LET qubit_alice == Head(mem[a])
             mem1 == [mem EXCEPT ![a] = AfterPopFront(@)]
         IN  IF Len(mem1[b]) = 0
             THEN \* bob.memory.pop() on an empty list raises IndexError
                  Outcome(mem1, pools, led, FALSE, TRUE, FALSE)
             ELSE LET qubit_bob == mem1[b][Len(mem1[b])]
                      mem2 == [mem1 EXCEPT ![b] = AfterPopBack(@)]
                  IN  AfterAcquisition(mem2, pools, led, a, b, route, draw,
                                       qubit_alice, qubit_bob)

(***************************************************************************)
(* request_transmission.                                                   *)
(***************************************************************************)

\* Line 43.
max_attempts == 2

\* Mutant of lines 52-54: no break, every pass asks num_qubits times.
AttemptAnswersNoBreak(answers, num_qubits) == [1..num_qubits -> answers]

\* Lines 49-55: the answers one pass of the for loop can receive from a
\* network layer whose answers lie in `answers`: it asks until it has
\* num_qubits routes or is answered None, whichever comes first.
AttemptAnswers(answers, num_qubits) ==
    {s \in UNION {[1..k -> answers] : k \in 0..num_qubits} :
        /\ \A i \in 1..(Len(s) - 1) : s[i] # NoRoute
        /\ Len(s) < num_qubits => (Len(s) >= 1 /\ s[Len(s)] = NoRoute)}

\* Lines 49-55: `routes` after the for loop.
RoutesOf(s) == SelectSeq(s, LAMBDA r : r # NoRoute)

\* Mutant of line 60: only the first hop of each route is checked.
EprCheckFirstHop(pools, routes) ==
    \A r \in 1..Len(routes) :
        ~(Len(get_eprs_from_edge(pools, routes[r][1], routes[r][2])) < 1)

\* Mutant of line 64: a pool must hold a pair for every route that uses it.
EprCheckDemand(pools, routes) ==
    \A r \in 1..Len(routes) : \A i \in Hops(routes[r]) :
        Len(get_eprs_from_edge(pools, routes[r][i], routes[r][i + 1]))
            >= Cardinality({q \in 1..Len(routes) :
                   \E j \in Hops(routes[q]) :
                       Edge(routes[q][j], routes[q][j + 1])
                           = Edge(routes[r][i], routes[r][i + 1])})

\* Lines 59-69: success after the check of every hop of every route.
EprCheck(pools, routes) ==
    \A r \in 1..Len(routes) : \A i \in Hops(routes[r]) :
        ~(Len(get_eprs_from_edge(pools, routes[r][i], routes[r][i + 1])) < 1)

\* Lines 60-67: the pool reads of the hops of one route from hop i on, and
\* whether all of them found a pair; the first empty pool ends the loop.
RECURSIVE HopReads(_, _, _)
HopReads(pools, route, i) ==
    IF i > Len(route) - 1 THEN [n |-> 0, ok |-> TRUE]
    ELSE IF Len(get_eprs_from_edge(pools, route[i], route[i + 1])) < 1
    THEN [n |-> 1, ok |-> FALSE]
    ELSE LET rest == HopReads(pools, route, i + 1)
         IN  [n |-> 1 + rest.n, ok |-> rest.ok]

\* Lines 59-69: the pool reads over the routes from route r on; a route
\* with an empty pool ends the loop (lines 68-69).
RECURSIVE RouteReads(_, _, _)
RouteReads(pools, routes, r) ==
    IF r > Len(routes) THEN 0
    ELSE LET h == HopReads(pools, routes[r], 1)
         IN  IF h.ok THEN h.n + RouteReads(pools, routes, r + 1) ELSE h.n

\* Mutant of lines 66-69: no break, every hop of every route is read.
EprReadsNoBreak(pools, s, num_qubits) ==
    IF Len(RoutesOf(s)) = num_qubits
    THEN SumSeq([r \in 1..Len(RoutesOf(s)) |-> Len(RoutesOf(s)[r]) - 1])
    ELSE 0

\* Lines 57-69: the number of get_eprs_from_edge calls of one pass.
EprReads(pools, s, num_qubits) ==
    IF Len(RoutesOf(s)) = num_qubits
    THEN RouteReads(pools, RoutesOf(s), 1)
    ELSE 0

\* Mutant of line 57: a pass without any route does not count as complete.
AttemptSucceedsNonEmpty(pools, s, num_qubits) ==
    /\ Len(RoutesOf(s)) = num_qubits
    /\ num_qubits >= 1
    /\ EprCheck(pools, RoutesOf(s))

\* Lines 57-69: success at the end of one pass of the while loop.
AttemptSucceeds(pools, s, num_qubits) ==
    /\ Len(RoutesOf(s)) = num_qubits
    /\ EprCheck(pools, RoutesOf(s))

\* Lines 47-72: the while loop.  Each run is the answers of every pass
\* made (tries), the final `attempts` and `success`.
RECURSIVE WhileLoop(_, _, _, _, _)
WhileLoop(pools, answers, num_qubits, attempts, tries) ==
    IF attempts < max_attempts
    THEN UNION {
           IF AttemptSucceeds(pools, s, num_qubits)
           THEN {[success |-> TRUE, attempts |-> attempts,
                  tries |-> Append(tries, s)]}
           ELSE WhileLoop(pools, answers, num_qubits, attempts + 1,
                          Append(tries, s))
           : s \in AttemptAnswers(answers, num_qubits)}
    ELSE {[success |-> FALSE, attempts |-> attempts, tries |-> tries]}

\* Lines 77-81: the record of one transmitted qubit.
TransmissionInfo(route, a, b) == [route |-> route, alice_id |-> a, bob_id |-> b]

\* Mutant of line 74: the routes of the last pass are recorded whatever
\* `success` is.
LedgerAfterRequestAlways(led, run, a, b) ==
    IF run.tries = <<>> THEN led
    ELSE LET routes == RoutesOf(run.tries[Len(run.tries)])
         IN  led \o [i \in 1..Len(routes) |-> TransmissionInfo(routes[i], a, b)]

\* Lines 74-87: transmitted_qubits at the return, `routes` being the list
\* of the last pass.
LedgerAfterRequest(led, run, a, b) ==
    IF run.success
    THEN LET routes == RoutesOf(run.tries[Len(run.tries)])
         IN  led \o [i \in 1..Len(routes) |-> TransmissionInfo(routes[i], a, b)]
    ELSE led

\* Mutant of line 64: the check takes the pair it finds on each hop of the
\* first route.
EprAfterRequestConsuming(pools, run) ==
    IF run.success /\ RoutesOf(run.tries[Len(run.tries)]) # <<>>
    THEN ReleaseEprs(pools, RoutesOf(run.tries[Len(run.tries)])[1]).pools
    ELSE pools

\* Lines 47-87: the EPR pools and the memories at the return; the method
\* calls no mutator of either.
EprAfterRequest(pools, run) == pools
MemoryAfterRequest(mem, run) == mem

(***************************************************************************)
(* The state machine.                                                      *)
(***************************************************************************)
NoCall ==
    [op |-> "none", alice |-> 0, bob |-> 0, count |-> 0, answers |-> {},
     tries |-> <<>>, reads |-> <<>>, attempts |-> 0, route |-> NoRoute,
     draw |-> 0,
     popped |-> FALSE, fault |-> FALSE, ret |-> FALSE,
     preMemory |-> <<>>, preEpr |-> <<>>, preLedger |-> <<>>]

\* No teleportation_protocol call is in flight.
NoCalls == <<>>

\* TransportLayer.__init__ (line 22) over a network whose hosts each hold
\* no qubit or MaxQubits qubits and whose edges hold up to MaxPairs pairs.
Init ==
    /\ memory \in {[h \in Hosts |-> InitialMemory(h, k[h])] :
                      k \in [Hosts -> {0, MaxQubits}]}
    /\ epr \in {[e \in Edges |-> InitialPool(k[e])] :
                   k \in [Edges -> 0..MaxPairs]}
    /\ ledger = <<>>
    /\ last = NoCall
    /\ calls = NoCalls

\* The network layers a call may run against: one that never finds a route,
\* and one that may answer any route or None at each request.
Providers(a, b) == {{NoRoute}, short_route_valid(a, b)}

RequestTransmission ==
    /\ last.op = "none"
    /\ UNCHANGED calls
    /\ \E p \in EndpointPairs, num_qubits \in 0..MaxCount :
         /\ Len(ledger) + num_qubits <= MaxLedger
         /\ \E answers \in Providers(p[1], p[2]) :
              \E run \in WhileLoop(epr, answers, num_qubits, 0, <<>>) :
                /\ ledger' = LedgerAfterRequest(ledger, run, p[1], p[2])
                /\ epr' = EprAfterRequest(epr, run)
                /\ memory' = MemoryAfterRequest(memory, run)
                /\ last' = [NoCall EXCEPT
                              !.op = "request_transmission",
                              !.alice = p[1], !.bob = p[2],
                              !.count = num_qubits,
                              !.answers = answers, !.tries = run.tries,
                              !.reads = [k \in 1..Len(run.tries) |->
                                  EprReads(epr, run.tries[k], num_qubits)],
                              !.attempts = run.attempts, !.ret = run.success,
                              !.preMemory = memory, !.preEpr = epr,
                              !.preLedger = ledger]

TeleportationProtocol ==
    /\ last.op = "none"
    /\ UNCHANGED calls
    /\ Len(ledger) + 1 <= MaxLedger
    /\ \E p \in EndpointPairs, draw \in Draws :
         \E route \in short_route_valid(p[1], p[2]) :
           LET out == TeleportOutcome(memory, epr, ledger, p[1], p[2], route, draw)
           IN  /\ memory' = out.memory
               /\ epr' = out.epr
               /\ ledger' = out.ledger
               /\ last' = [NoCall EXCEPT
                             !.op = "teleportation_protocol",
                             !.alice = p[1], !.bob = p[2],
                             !.route = route, !.draw = draw,
                             !.popped = out.popped, !.fault = out.fault,
                             !.ret = out.ret,
                             !.preMemory = memory, !.preEpr = epr,
                             !.preLedger = ledger]

\* The caller takes the result of the call and goes on to its next call.
Return ==
    /\ last.op # "none"
    /\ last' = NoCall
    /\ UNCHANGED <<memory, epr, ledger, calls>>

Next == RequestTransmission \/ TeleportationProtocol \/ Return

Spec == Init /\ [][Next]_vars

(***************************************************************************)
(* The success probability on its own: lines 140-143 applied to every      *)
(* f_alice and f_bob in tenths and every f_route = fsum / (10 n), the mean *)
(* of n pair fidelities in tenths, n up to two hops of MaxPairs pairs.     *)
(***************************************************************************)
Tenths == 0..10

ProbInit ==
    /\ memory = [h \in Hosts |-> <<>>]
    /\ epr = [e \in Edges |-> <<>>]
    /\ ledger = <<>>
    /\ calls = NoCalls
    /\ \E f_alice \in Tenths, f_bob \in Tenths, n \in 1..(2 * MaxPairs) :
         \E fsum \in 0..(10 * n) :
           last = [op |-> "fidelities", f_alice |-> f_alice, f_bob |-> f_bob,
                   fsum |-> fsum, n |-> n, success_prob |-> [num |-> 0, den |-> 1]]

ComputeSuccessProb ==
    /\ last.op = "fidelities"
    /\ last' = [last EXCEPT
                  !.op = "success_prob",
                  !.success_prob =
                      SuccessProb(last.f_alice, last.f_bob, last.fsum, last.n)]
    /\ UNCHANGED <<memory, epr, ledger, calls>>

ProbNext == ComputeSuccessProb

ProbSpec == ProbInit /\ [][ProbNext]_vars

(***************************************************************************)
(* Two teleportation_protocol calls interleaved at the granularity of      *)
(* their steps: the route and memory length check (lines 110-121), the     *)
(* pops (123-124), the fidelity read (131-138), the draw and memory update *)
(* (140-167), the EPR removal with the ledger append (170-174).  The code  *)
(* takes no lock.                                                          *)
(***************************************************************************)
Procs == {1, 2}

NewCall ==
    [pc |-> "start", alice |-> 0, bob |-> 0, route |-> NoRoute,
     qubits |-> <<>>, seen |-> <<>>, fsum |-> 0, n |-> 0, success |-> FALSE,
     taken |-> {}, fault |-> "none", faultEdge |-> {}, ret |-> FALSE]

ConcInit ==
    /\ memory \in {[h \in Hosts |-> InitialMemory(h, k[h])] :
                      k \in [Hosts -> 0..MaxQubits]}
    /\ epr \in {[e \in Edges |-> InitialPool(k[e])] :
                   k \in [Edges -> 0..MaxPairs]}
    /\ ledger = <<>>
    /\ last = NoCall
    /\ calls = [p \in Procs |-> NewCall]

\* Lines 110-121.
CheckStep(p) ==
    /\ calls[p].pc = "start"
    /\ \E e \in EndpointPairs : \E route \in short_route_valid(e[1], e[2]) :
         calls' = [calls EXCEPT ![p] =
                     [@ EXCEPT !.alice = e[1], !.bob = e[2], !.route = route,
                               !.pc = IF route = NoRoute
                                         \/ ~MemoriesSufficient(memory, e[1], e[2])
                                      THEN "done" ELSE "pop"]]
    /\ UNCHANGED <<memory, epr, ledger, last>>

\* Lines 123-124; a pop of an empty list raises IndexError.
PopStep(p) ==
    /\ calls[p].pc = "pop"
    /\ LET a == calls[p].alice
           b == calls[p].bob
       IN  IF Len(memory[a]) = 0
           THEN /\ calls' = [calls EXCEPT ![p] =
                               [@ EXCEPT !.pc = "fault", !.fault = "pop"]]
                /\ UNCHANGED memory
           ELSE LET mem1 == [memory EXCEPT ![a] = AfterPopFront(@)]
                IN  IF Len(mem1[b]) = 0
                    THEN /\ calls' = [calls EXCEPT ![p] =
                                        [@ EXCEPT !.pc = "fault", !.fault = "pop",
                                                  !.qubits = <<Head(memory[a])>>]]
                         /\ memory' = mem1
                    ELSE /\ calls' = [calls EXCEPT ![p] =
                                        [@ EXCEPT !.pc = "read",
                                                  !.qubits = <<Head(memory[a]),
                                                               mem1[b][Len(mem1[b])]>>]]
                         /\ memory' = [mem1 EXCEPT ![b] = AfterPopBack(@)]
    /\ UNCHANGED <<epr, ledger, last>>

\* Lines 131-138.
ReadStep(p) ==
    /\ calls[p].pc = "read"
    /\ LET fidelities == CollectFidelities(epr, calls[p].route)
       IN  calls' = [calls EXCEPT ![p] =
                       [@ EXCEPT !.seen = epr,
                                 !.fsum = SumSeq(fidelities),
                                 !.n = Len(fidelities),
                                 !.pc = IF fidelities = <<>>
                                        THEN "done" ELSE "update"]]
    /\ UNCHANGED <<memory, epr, ledger, last>>

\* Lines 140-167.
UpdateStep(p) ==
    /\ calls[p].pc = "update"
    /\ \E draw \in Draws :
         LET c == calls[p]
             prob == SuccessProb(QubitFidelity(c.qubits[1]),
                                 QubitFidelity(c.qubits[2]), c.fsum, c.n)
             success == DrawSucceeds(draw, prob)
         IN  /\ memory' = MemoryUpdate(memory, c.alice, c.bob,
                                       c.qubits[1], c.qubits[2], success)
             /\ calls' = [calls EXCEPT ![p] =
                            [@ EXCEPT !.success = success, !.pc = "release"]]
    /\ UNCHANGED <<epr, ledger, last>>

\* The pairs the pools hold, each named by its edge and its identifier.
PairsOf(pools) ==
    UNION {{<<e, pools[e][i]>> : i \in 1..Len(pools[e])} : e \in Edges}

\* Lines 170-174.
ReleaseStep(p) ==
    /\ calls[p].pc = "release"
    /\ LET c == calls[p]
           rel == ReleaseEprs(epr, c.route)
           taken == PairsOf(epr) \ PairsOf(rel.pools)
           failing == {i \in Hops(c.route) :
                          Len(epr[Edge(c.route[i], c.route[i + 1])]) = 0}
           first == CHOOSE i \in failing : \A j \in failing : i <= j
           prob == SuccessProb(QubitFidelity(c.qubits[1]),
                               QubitFidelity(c.qubits[2]), c.fsum, c.n)
           info == TeleportInfo(c.alice, c.bob, c.route,
                                QubitFidelity(c.qubits[1]),
                                QubitFidelity(c.qubits[2]),
                                c.fsum, c.n, prob, c.qubits[1], c.qubits[2],
                                c.success)
       IN  /\ epr' = rel.pools
           /\ IF rel.fault
              THEN /\ calls' = [calls EXCEPT ![p] =
                                  [@ EXCEPT !.pc = "fault", !.fault = "remove_epr",
                                            !.taken = taken,
                                            !.faultEdge =
                                                Edge(c.route[first], c.route[first + 1])]]
                   /\ UNCHANGED ledger
              ELSE /\ calls' = [calls EXCEPT ![p] =
                                  [@ EXCEPT !.pc = "done", !.taken = taken,
                                            !.ret = c.success]]
                   /\ ledger' = Append(ledger, info)
    /\ UNCHANGED <<memory, last>>

ConcNext ==
    \E p \in Procs :
        \/ CheckStep(p)
        \/ PopStep(p)
        \/ ReadStep(p)
        \/ UpdateStep(p)
        \/ ReleaseStep(p)

ConcSpec == ConcInit /\ [][ConcNext]_vars

(***************************************************************************)
(* The two read accessors of the ledger.                                   *)
(***************************************************************************)

\* Lines 89-96.
get_transmitted_qubits == ledger

\* Mutant of line 183: only the records of teleportations are returned.
get_teleported_only ==
    SelectSeq(ledger, LAMBDA rec : "success" \in DOMAIN rec)

\* Lines 176-183.
get_teleported_qubits == ledger

(***************************************************************************)
(* Vocabulary of the properties: the most recent call and its pre-state.   *)
(***************************************************************************)
Teleported == last.op = "teleportation_protocol"
Requested == last.op = "request_transmission"

QubitTotal(mem, a, b) == Len(mem[a]) + Len(mem[b])

HopEdges(route) == {Edge(route[i], route[i + 1]) : i \in Hops(route)}

\* The call passed lines 110-121: a route was answered, both memories held
\* a qubit.
PreconditionsPassed ==
    /\ Teleported
    /\ last.route # NoRoute
    /\ Len(last.preMemory[last.alice]) >= 1
    /\ Len(last.preMemory[last.bob]) >= 1

\* Route requests made by the call, over all its passes.
RouteCalls == SumSeq([k \in 1..Len(last.tries) |-> Len(last.tries[k])])

\* One pass of the call got every route and found a pair on every hop.
GoodPass(s) ==
    /\ Len(s) = last.count
    /\ \A i \in 1..Len(s) : s[i] # NoRoute
    /\ \A i \in 1..Len(s) : \A e \in HopEdges(s[i]) : Len(last.preEpr[e]) >= 1

(***************************************************************************)
(* C1. Conservation: a teleportation_protocol call that returns false      *)
(* leaves the number of qubits in the source and destination memories      *)
(* unchanged, and one that returns true lowers it by exactly one.          *)
(* The early return of lines 136-138 drops both popped qubits.             *)
(***************************************************************************)
C1_Conservation ==
    (Teleported /\ ~last.fault) =>
        QubitTotal(memory, last.alice, last.bob)
            = QubitTotal(last.preMemory, last.alice, last.bob)
                - (IF last.ret THEN 1 ELSE 0)

(***************************************************************************)
(* C2. EPR consumption, as claimed: every call whose preconditions passed  *)
(* (route answered, both memories non-empty) removes exactly one pair from *)
(* the pool of each hop of the route and none elsewhere.                   *)
(***************************************************************************)
C2_ConsumptionAsClaimed ==
    PreconditionsPassed =>
        \A e \in Edges :
            Len(epr[e]) = Len(last.preEpr[e])
                            - (IF e \in HopEdges(last.route) THEN 1 ELSE 0)

(***************************************************************************)
(* C2, amended. When moreover every hop of the route held at least one     *)
(* pair, the call returns and has removed exactly one pair from the pool   *)
(* of each hop (the rest of the pool kept) and none elsewhere, on success  *)
(* and on failure.                                                         *)
(***************************************************************************)
C2_Consumption ==
    (/\ PreconditionsPassed
     /\ \A e \in HopEdges(last.route) : Len(last.preEpr[e]) >= 1) =>
        /\ ~last.fault
        /\ \A e \in Edges :
             IF e \in HopEdges(last.route)
             THEN /\ Len(epr[e]) = Len(last.preEpr[e]) - 1
                  /\ \A i \in 1..Len(epr[e]) :
                       \E j \in 1..Len(last.preEpr[e]) : epr[e][i] = last.preEpr[e][j]
             ELSE epr[e] = last.preEpr[e]

\* A failed teleportation over the two-hop route that released both hops.
C2_Witness ==
    /\ PreconditionsPassed
    /\ ~last.fault /\ ~last.ret
    /\ Len(last.route) = 3
    /\ \A e \in HopEdges(last.route) :
         Len(last.preEpr[e]) >= 1 /\ Len(epr[e]) = Len(last.preEpr[e]) - 1

(***************************************************************************)
(* C3. Run to completion: a call that popped the two qubits returns only   *)
(* after it appended exactly one record to the ledger.                     *)
(* Lines 136-138 return between the pops and the append.                   *)
(***************************************************************************)
C3_RunToCompletion ==
    (Teleported /\ last.popped /\ ~last.fault) =>
        Len(ledger) = Len(last.preLedger) + 1

C5_Rollback ==
    (/\ Teleported /\ ~last.fault /\ ~last.ret
     /\ last.route # NoRoute
     /\ \A e \in HopEdges(last.route) : Len(last.preEpr[e]) = 0) =>
        /\ memory = last.preMemory
        /\ epr = last.preEpr

(***************************************************************************)
(* C6. Retry ceiling, as claimed: a request_transmission call makes at     *)
(* most 2 passes, and against a network layer that never finds a route it  *)
(* returns false after exactly 2 passes and exactly 2 route requests.      *)
(***************************************************************************)
C6_RetryCeilingAsClaimed ==
    Requested =>
        /\ Len(last.tries) <= 2
        /\ last.answers = {NoRoute} =>
             (~last.ret /\ Len(last.tries) = 2 /\ RouteCalls = 2)

(***************************************************************************)
(* C6, amended. A request_transmission call makes at most 2 passes; for    *)
(* num_qubits >= 1, against a network layer that never finds a route, it   *)
(* returns false after exactly 2 passes and exactly 2 route requests.      *)
(***************************************************************************)
C6_RetryCeiling ==
    Requested =>
        /\ Len(last.tries) <= 2
        /\ (last.answers = {NoRoute} /\ last.count >= 1) =>
             (~last.ret /\ Len(last.tries) = 2 /\ RouteCalls = 2)

\* A request for MaxCount qubits against a network layer without routes.
C6_Witness ==
    /\ Requested
    /\ last.answers = {NoRoute}
    /\ last.count = MaxCount /\ MaxCount >= 2
    /\ ~last.ret /\ RouteCalls = 2

(***************************************************************************)
(* C7. All-or-nothing batch: a request_transmission call that returns      *)
(* false leaves the ledger identical to the ledger before the call, also   *)
(* when some routes of a pass were obtained.                               *)
(***************************************************************************)
C7_AllOrNothing ==
    (Requested /\ ~last.ret) => ledger = last.preLedger

\* Every request of the last pass but the final one got a route, the final
\* one got none, and the call returned false.
C7_Witness ==
    /\ Requested /\ ~last.ret
    /\ last.count = MaxCount /\ MaxCount >= 2
    /\ LET s == last.tries[Len(last.tries)]
       IN  /\ Len(s) = last.count
           /\ s[Len(s)] = NoRoute
           /\ \A i \in 1..(Len(s) - 1) : s[i] # NoRoute
    /\ ledger = last.preLedger

(***************************************************************************)
(* C8. Feasibility check only: a request_transmission call, whatever it    *)
(* returns, leaves every EPR pool and every host memory unchanged; after   *)
(* a call that returned true, every hop of every recorded route still      *)
(* holds the pairs it held, so a teleportation over that route right after *)
(* collects a fidelity and releases every hop without a failure.           *)
(***************************************************************************)
C8_FeasibilityOnly ==
    Requested =>
        /\ epr = last.preEpr
        /\ memory = last.preMemory
        /\ last.ret =>
             \A i \in (Len(last.preLedger) + 1)..Len(ledger) :
                 /\ CollectFidelities(epr, ledger[i].route) # <<>>
                 /\ ~ReleaseEprs(epr, ledger[i].route).fault

\* The check passed over an edge that held exactly one pair.
C8_Witness ==
    /\ Requested /\ last.ret /\ last.count >= 1
    /\ \E i \in (Len(last.preLedger) + 1)..Len(ledger) :
         \E e \in HopEdges(ledger[i].route) :
             Len(last.preEpr[e]) = 1 /\ Len(epr[e]) = 1

(***************************************************************************)
(* C9. Bulk success: request_transmission returns true exactly when one    *)
(* of its (at most two) passes got all num_qubits routes and found a pair  *)
(* on every hop of each; that pass is then the last one made, and the      *)
(* ledger is the old ledger followed by exactly num_qubits records, the    *)
(* routes of that pass in request order with the source and destination.   *)
(***************************************************************************)
C9_BulkSuccess ==
    Requested =>
        LET n == Len(last.tries)
            old == Len(last.preLedger)
        IN  /\ n >= 1 /\ n <= 2
            /\ last.ret <=> (\E k \in 1..n : GoodPass(last.tries[k]))
            /\ \A k \in 1..(n - 1) : ~GoodPass(last.tries[k])
            /\ last.ret =>
                 /\ Len(ledger) = old + last.count
                 /\ SubSeq(ledger, 1, old) = last.preLedger
                 /\ \A i \in 1..last.count :
                      ledger[old + i] = [route |-> last.tries[n][i],
                                         alice_id |-> last.alice,
                                         bob_id |-> last.bob]

\* Success in the second pass, with two different routes recorded in
\* request order, after a first pass that had obtained a route.
C9_Witness ==
    /\ Requested /\ last.ret
    /\ Len(last.tries) = 2
    /\ last.count = 2
    /\ last.tries[1][1] # NoRoute
    /\ last.tries[2][1] # last.tries[2][2]
    /\ Len(ledger) = Len(last.preLedger) + 2
    /\ ledger[Len(ledger)].route = last.tries[2][2]

(***************************************************************************)
(* C10. No unhandled fault: every request_transmission and                 *)
(* teleportation_protocol call ends by returning a boolean; none ends in   *)
(* an exception, and remove_epr is never called on an empty pool.          *)
(***************************************************************************)
C10_NoFault ==
    (Teleported \/ Requested) => ~last.fault

(***************************************************************************)
(* C11. Exclusive qubit ownership: in every state reached by any sequence  *)
(* of request_transmission and teleportation_protocol calls, no qubit is   *)
(* in two host memories or twice in one memory.                            *)
(***************************************************************************)
C11_ExclusiveOwnership ==
    /\ \A h \in Hosts : \A i, j \in 1..Len(memory[h]) :
         i # j => memory[h][i] # memory[h][j]
    /\ \A g, h \in Hosts : g # h =>
         \A i \in 1..Len(memory[g]) : \A j \in 1..Len(memory[h]) :
             memory[g][i] # memory[h][j]

\* A successful teleportation moved the source's front qubit into the
\* destination memory, and the source still holds another qubit.
C11_Witness ==
    /\ Teleported /\ last.ret
    /\ Len(memory[last.alice]) >= 1
    /\ memory[last.bob][Len(memory[last.bob])] = last.preMemory[last.alice][1]

(***************************************************************************)
(* C12. Append-only ledger: the ledger before a call is a prefix of the    *)
(* ledger after it, and get_transmitted_qubits and get_teleported_qubits   *)
(* return the same sequence.                                               *)
(***************************************************************************)
C12_AppendOnly ==
    /\ (Teleported \/ Requested) =>
         /\ Len(last.preLedger) <= Len(ledger)
         /\ SubSeq(ledger, 1, Len(last.preLedger)) = last.preLedger
    /\ get_transmitted_qubits = get_teleported_qubits

\* A teleportation appended its record behind a request's record.
C12_Witness ==
    /\ Teleported
    /\ Len(last.preLedger) >= 1
    /\ Len(ledger) = Len(last.preLedger) + 1
    /\ "success" \notin DOMAIN ledger[1]
    /\ get_teleported_qubits = ledger

(***************************************************************************)
(* C13. Pop order and memory update: for a call that reached the draw and  *)
(* returned, with source memory [a]+S and destination memory D+[b] before: *)
(* on success the source memory is S and the destination memory is D+[a];  *)
(* on a failed draw the source memory is S+[a] and the destination memory  *)
(* is D+[b].                                                               *)
(***************************************************************************)
C13_PopOrder ==
    (Teleported /\ ~last.fault /\ Len(ledger) = Len(last.preLedger) + 1) =>
        LET src == last.preMemory[last.alice]
            dst == last.preMemory[last.bob]
            a == src[1]
            S == SubSeq(src, 2, Len(src))
            D == SubSeq(dst, 1, Len(dst) - 1)
            b == dst[Len(dst)]
        IN  IF last.ret
            THEN /\ memory[last.alice] = S
                 /\ memory[last.bob] = D \o <<a>>
            ELSE /\ memory[last.alice] = S \o <<a>>
                 /\ memory[last.bob] = D \o <<b>>

\* A failed draw with S and D non-empty: a went behind S.
C13_Witness ==
    /\ Teleported /\ ~last.fault /\ ~last.ret
    /\ Len(ledger) = Len(last.preLedger) + 1
    /\ Len(last.preMemory[last.alice]) >= 2
    /\ Len(last.preMemory[last.bob]) >= 2
    /\ memory[last.alice][Len(memory[last.alice])] = last.preMemory[last.alice][1]
    /\ memory[last.alice] # last.preMemory[last.alice]

(***************************************************************************)
(* C14. Outcome draw: for a call that reached the draw and returned, the   *)
(* outcome recorded is success exactly when the draw is at most the        *)
(* recorded success probability (a draw equal to it succeeds), the value   *)
(* returned is the outcome of the one record appended, and the memory      *)
(* update is the one of that outcome.                                      *)
(***************************************************************************)
C14_OutcomeDraw ==
    (Teleported /\ ~last.fault /\ Len(ledger) = Len(last.preLedger) + 1) =>
        LET rec == ledger[Len(ledger)]
            P == rec.success_prob
        IN  /\ rec.success <=> (last.draw * P.den <= 10 * P.num)
            /\ last.ret = rec.success
            /\ IF rec.success
               THEN /\ Len(memory[last.bob]) = Len(last.preMemory[last.bob])
                    /\ Len(memory[last.alice])
                         = Len(last.preMemory[last.alice]) - 1
                    /\ memory[last.bob][Len(memory[last.bob])] = rec.qubit_alice
               ELSE /\ Len(memory[last.bob]) = Len(last.preMemory[last.bob])
                    /\ Len(memory[last.alice]) = Len(last.preMemory[last.alice])
                    /\ memory[last.bob][Len(memory[last.bob])] = rec.qubit_bob
                    /\ memory[last.alice][Len(memory[last.alice])]
                         = rec.qubit_alice

\* A draw of 0.5 against a success probability of exactly 0.5 succeeded.
C14_Witness ==
    /\ Teleported /\ last.ret
    /\ last.draw > 0
    /\ LET P == ledger[Len(ledger)].success_prob
       IN  last.draw * P.den = 10 * P.num

(***************************************************************************)
(* C15. Immediate abort inside a pass: a pass whose k-th route request is  *)
(* answered None makes exactly k requests and reads no EPR pool; a pass    *)
(* that got every route reads the hops in order up to and including the    *)
(* first hop whose pool is empty; a second pass is made only after a       *)
(* failed first pass; a call that succeeds in its first pass makes exactly *)
(* num_qubits route requests.                                              *)
(***************************************************************************)
RECURSIVE FlatHops(_)
FlatHops(routes) ==
    IF routes = <<>> THEN <<>>
    ELSE [i \in Hops(Head(routes)) |-> Edge(Head(routes)[i], Head(routes)[i + 1])]
             \o FlatHops(Tail(routes))

ReadsUntilFirstEmpty(flat) ==
    LET empty == {j \in 1..Len(flat) : Len(last.preEpr[flat[j]]) = 0}
    IN  IF empty = {} THEN Len(flat)
        ELSE CHOOSE j \in empty : \A k \in empty : j <= k

C15_ImmediateAbort ==
    Requested =>
        /\ \A k \in 1..Len(last.tries) :
             LET s == last.tries[k]
             IN  /\ Len(s) <= last.count
                 /\ \A i \in 1..Len(s) :
                      s[i] = NoRoute => (Len(s) = i /\ last.reads[k] = 0)
                 /\ (\A i \in 1..Len(s) : s[i] # NoRoute) =>
                      /\ Len(s) = last.count
                      /\ last.reads[k] = ReadsUntilFirstEmpty(FlatHops(s))
        /\ Len(last.tries) = 2 => ~GoodPass(last.tries[1])
        /\ (last.ret /\ Len(last.tries) = 1) => RouteCalls = last.count

\* The first pass stopped at its second request, the second pass got both
\* routes and stopped reading pools before the last hop.
C15_Witness ==
    /\ Requested /\ last.count = 2 /\ Len(last.tries) = 2
    /\ Len(last.tries[1]) = 2 /\ last.tries[1][2] = NoRoute
    /\ last.reads[1] = 0
    /\ \A i \in 1..2 : last.tries[2][i] # NoRoute
    /\ last.reads[2] >= 1
    /\ last.reads[2] < Len(FlatHops(last.tries[2]))

(***************************************************************************)
(* C18. Empty batch: request_transmission with num_qubits = 0 returns true *)
(* in its first pass, without a route request and without reading an EPR   *)
(* pool, and appends no record, whatever the network layer would answer.   *)
(***************************************************************************)
C18_EmptyBatch ==
    (Requested /\ last.count = 0) =>
        /\ last.ret
        /\ Len(last.tries) = 1
        /\ RouteCalls = 0
        /\ last.reads = <<0>>
        /\ ledger = last.preLedger

\* An empty batch against a network layer that never finds a route.
C18_Witness ==
    /\ Requested /\ last.count = 0
    /\ last.answers = {NoRoute}
    /\ last.ret

(***************************************************************************)
(* C19. No reservation per qubit: when every request of the first pass is  *)
(* answered the same route and every hop of it holds at least one pair,    *)
(* the call returns true in that pass, also when num_qubits is larger than *)
(* the number of pairs on a hop.                                           *)
(***************************************************************************)
C19_NoReservation ==
    (/\ Requested /\ last.count >= 1
     /\ Len(last.tries[1]) = last.count
     /\ last.tries[1][1] # NoRoute
     /\ \A i \in 1..last.count : last.tries[1][i] = last.tries[1][1]
     /\ \A e \in HopEdges(last.tries[1][1]) : Len(last.preEpr[e]) >= 1) =>
        /\ last.ret
        /\ Len(last.tries) = 1

\* Two qubits requested over the same route, a hop of which holds one pair.
C19_Witness ==
    /\ Requested /\ last.ret /\ last.count = 2
    /\ Len(last.tries) = 1
    /\ last.tries[1][1] = last.tries[1][2]
    /\ \E e \in HopEdges(last.tries[1][1]) : Len(last.preEpr[e]) = 1

(***************************************************************************)
(* C16. Success probability extremes: for fidelities on the grid, P lies   *)
(* in [0, 1]; P = 1 exactly when the three fidelities are all 1 or all 0;  *)
(* P = 0 when one fidelity is 1 and another is 0; (0.9, 0.9, 0.9) gives    *)
(* 0.730 and (0.1, 0.9, 0.5) gives 0.090.                                  *)
(***************************************************************************)
C16_ProbExtremes ==
    last.op = "success_prob" =>
        LET fa == last.f_alice
            fb == last.f_bob
            fs == last.fsum
            n == last.n
            P == last.success_prob
            ones == {i \in 1..3 : <<fa = 10, fb = 10, fs = 10 * n>>[i]}
            zeros == {i \in 1..3 : <<fa = 0, fb = 0, fs = 0>>[i]}
        IN  /\ 0 <= P.num /\ P.num <= P.den
            /\ P.num = P.den <=> (ones = 1..3 \/ zeros = 1..3)
            /\ (ones # {} /\ zeros # {}) => P.num = 0
            /\ (fa = 9 /\ fb = 9 /\ fs = 9 * n) => 1000 * P.num = 730 * P.den
            /\ (fa = 1 /\ fb = 9 /\ fs = 5 * n) => 1000 * P.num = 90 * P.den

\* The literal case (0.9, 0.9, 0.9), f_route being the mean of 0.8 and 1.0.
C16_Witness ==
    /\ last.op = "success_prob"
    /\ last.f_alice = 9 /\ last.f_bob = 9
    /\ last.n = 2 /\ last.fsum = 18
    /\ last.success_prob = [num |-> 1460, den |-> 2000]

(***************************************************************************)
(* C17. Concurrent teleportation: when two teleportation_protocol calls    *)
(* are interleaved step by step, no qubit is held by both calls at once    *)
(* and no EPR pair is removed by both, no call pops from a memory that was *)
(* emptied since its length check, and no call removes from a pool that    *)
(* held a pair when the call read it and was emptied since.                *)
(* A call holds its two qubits from the pops (lines 123-124) until the     *)
(* memory update (lines 157-167); a qubit that a failed draw returned may  *)
(* be popped again by a later call.                                        *)
(***************************************************************************)
Holding(p) ==
    IF calls[p].pc \in {"read", "update"}
    THEN {calls[p].qubits[i] : i \in 1..Len(calls[p].qubits)}
    ELSE {}

C17_NoRace ==
    /\ \A p \in DOMAIN calls :
         /\ calls[p].fault # "pop"
         /\ calls[p].fault = "remove_epr" =>
              Len(calls[p].seen[calls[p].faultEdge]) = 0
    /\ \A p, q \in DOMAIN calls : p # q =>
         /\ Holding(p) \cap Holding(q) = {}
         /\ calls[p].taken \cap calls[q].taken = {}

=============================================================================
